---- MODULE Spec2Model ----
(***************************************************************************)
(* A model of the Abyssal Puzzle client-side helpers: the cookie helpers,  *)
(* the CooldownManager with its interval and timeout, verifyPassword, the  *)
(* unlock-state storage, the AudioPlayer toggle and the final-key page.     *)
(*                                                                         *)
(* Strings that the code takes apart (cookie names and values, the cookie  *)
(* header, timestamps written as text) are sequences of one-character      *)
(* strings.  Time is the millisecond clock read by Date.now().             *)
(***************************************************************************)
EXTENDS Integers, Sequences, FiniteSets

VARIABLES
    now,          \* the wall clock, in milliseconds (Date.now())
    jar,          \* the browser's cookie store behind document.cookie
    cooldownSeconds, \* CooldownManager.cooldownSeconds (fixed at construction)
    drift,        \* the most the clock advances between two reads within one call
    cm,           \* the CooldownManager's fields and the DOM elements it drives
    timers,       \* pending setInterval / setTimeout timers, in the order their waits started
    nextId,       \* the next timer handle the browser hands out
    lastCall,     \* the most recent call made on the manager (history)
    successCalls, \* onSuccess invocations made by the most recent call (history)
    endCalls,     \* onCooldownEnd invocations since the most recent call (history)
    callCount,    \* calls made so far (bounds the exploration)
    storage,      \* localStorage: key -> the stored text, if any
    ret,          \* what the most recent loadUnlockedState call returned (or threw)
    saved,        \* per key, the state last passed to saveUnlockedState (history)
    lastStorageCall, \* the most recent storage call (history)
    storageCalls, \* storage calls made so far (bounds the exploration)
    ck,           \* per cookie name, what setCookie / deleteCookie did last (history)
    cookieCalls,  \* cookie helper calls made so far (bounds the exploration)
    audioCfg,     \* the AudioPlayer's options
    audio,        \* the audio element
    player,       \* the AudioPlayer's fields and its control button
    events,       \* media events queued on the audio element, not yet dispatched
    lastToggle,   \* the most recent togglePlay call (history)
    audioSteps,   \* calls, clicks and media endings so far (bounds the exploration)
    clickHandlers, \* the playHandlers of setupAutoPlayOnFirstClick: the due times of the
                  \* timeouts still to bind one, how many are bound, how many have run
    listeners,    \* how many times setupControlButton registered its listeners
    lastClick,    \* the most recent click of the user (history)
    fetchState,   \* the keys.json request: pending, loaded or failed
    serverKey,    \* data.finalKey of the keys.json the server holds
    finalKey,     \* the page's finalKey variable
    input,        \* the final-password input element
    pageTimers,   \* the final-key page's pending timeouts, oldest first
    location,     \* window.location.href
    lastCheck,    \* the most recent checkFinalPassword call (history)
    navigation    \* when and how the page navigated away (history)

cooldownVars ==
    <<now, jar, cooldownSeconds, drift, cm, timers, nextId, lastCall, successCalls,
      endCalls, callCount>>

storageVars == <<storage, ret, saved, lastStorageCall, storageCalls>>

\* The manager's part of cooldownVars, without the clock and the cookie store.
managerVars ==
    <<cooldownSeconds, drift, cm, timers, nextId, lastCall, successCalls, endCalls, callCount>>

cookieVars == <<ck, cookieCalls>>

audioVars ==
    <<audioCfg, audio, player, events, lastToggle, audioSteps, clickHandlers, listeners,
      lastClick>>

pageVars == <<fetchState, serverKey, finalKey, input, pageTimers, location, lastCheck, navigation>>

vars == <<cooldownVars, storageVars, cookieVars, audioVars, pageVars>>

otherThanCooldown == <<storageVars, cookieVars, audioVars, pageVars>>
otherThanStorage == <<cooldownVars, cookieVars, audioVars, pageVars>>
otherThanCookies == <<managerVars, storageVars, audioVars, pageVars>>
otherThanAudio == <<cooldownVars, storageVars, cookieVars, pageVars>>
otherThanAudioAndClock == <<jar, managerVars, storageVars, cookieVars, pageVars>>
otherThanPage == <<jar, managerVars, storageVars, cookieVars, audioVars>>

\* ---------------------------------------------------------------- bounds

MaxCallTime == 2000
MaxCalls == 2
MaxCooldownSeconds == 2
MaxDrift == 1
MaxStorageCalls == 3
MaxCookieCalls == 3
MaxCookieSeconds == 2
MaxAudioSteps == 4
MaxChecks == 3
MaxPageCallTime == 1000
MaxAudioTime == 200

\* ------------------------------------------------------- program constants

MsPerSecond == 1000

\* ------------------------------------------------------------ text helpers

Digits == <<"0", "1", "2", "3", "4", "5", "6", "7", "8", "9">>

IsDigit(c) == \E i \in 1..10 : Digits[i] = c

DigitVal(c) == (CHOOSE i \in 1..10 : Digits[i] = c) - 1

\* The value JavaScript calls null, kept apart from every string.
Null == <<"<null>">>

Min(S) == CHOOSE x \in S : \A y \in S : x <= y

\* String.prototype.indexOf for a one-character needle (0-based, -1 if absent).
IndexOfChar(s, c) ==
    IF \E i \in 1..Len(s) : s[i] = c
    THEN Min({i \in 1..Len(s) : s[i] = c}) - 1
    ELSE -1

\* cookie.indexOf(nameEQ) === 0
StartsWith(s, p) == Len(p) <= Len(s) /\ SubSeq(s, 1, Len(p)) = p

\* s.substring(n)
Substring(s, n) == SubSeq(s, n + 1, Len(s))

RECURSIVE TrimLeft(_)
TrimLeft(s) == IF s # <<>> /\ Head(s) = " " THEN TrimLeft(Tail(s)) ELSE s

RECURSIVE TrimRight(_)
TrimRight(s) ==
    IF s # <<>> /\ s[Len(s)] = " " THEN TrimRight(SubSeq(s, 1, Len(s) - 1)) ELSE s

\* String.prototype.trim
Trim(s) == TrimRight(TrimLeft(s))

\* String.prototype.split for a one-character separator.
RECURSIVE Split(_, _)
Split(s, c) ==
    LET i == IndexOfChar(s, c)
    IN  IF i = -1 THEN <<s>>
        ELSE <<SubSeq(s, 1, i)>> \o Split(Substring(s, i + 1), c)

\* `${n}` for a non-negative integer.
RECURSIVE NumberToString(_)
NumberToString(n) ==
    IF n < 10 THEN <<Digits[n + 1]>>
    ELSE NumberToString(n \div 10) \o <<Digits[(n % 10) + 1]>>

RECURSIVE DigitsValue(_, _)
DigitsValue(s, acc) ==
    IF s = <<>> \/ ~IsDigit(Head(s)) THEN acc
    ELSE DigitsValue(Tail(s), acc * 10 + DigitVal(Head(s)))

\* parseInt(s): leading white space skipped, then the longest run of digits;
\* NaN (ok = FALSE) when there is none.
parseInt(s) ==
    LET t == TrimLeft(s)
    IN  IF t = <<>> \/ ~IsDigit(Head(t))
        THEN [ok |-> FALSE, n |-> 0]
        ELSE [ok |-> TRUE, n |-> DigitsValue(t, 0)]

\* The first instant after t at offset o of a second.
NextAtOffset(t, o) == (((t - o) \div MsPerSecond) + 1) * MsPerSecond + o

\* Math.ceil(a / b) for a >= 0, b > 0.
CeilDiv(a, b) == (a + b - 1) \div b

\* ------------------------------------------------------------ cookie store

\* Date.prototype.toUTCString writes whole seconds only; this is the instant
\* the browser reads back from the expires attribute.
toUTCString(ms) == (ms \div MsPerSecond) * MsPerSecond

\* The cookies of the store that have not expired at time t.
LiveCookies(j, t) == SelectSeq(j, LAMBDA c : c.expires > t)

RECURSIVE JoinCookies(_)
JoinCookies(j) ==
    IF j = <<>> THEN <<>>
    ELSE LET c == Head(j)
             one == IF c.name = <<>> THEN c.value ELSE c.name \o <<"=">> \o c.value
         IN  IF Len(j) = 1 THEN one ELSE one \o <<";", " ">> \o JoinCookies(Tail(j))

\* Reading document.cookie at time t: "n1=v1; n2=v2".
DocumentCookieGet(j, t) == JoinCookies(LiveCookies(j, t))

\* Assigning document.cookie at time t.  str is the text the code writes before
\* ";expires=...;path=/" and expires the instant its expires attribute denotes.
\* The browser takes the name-value pair up to the first ';', splits it at the
\* first '=', trims both sides, and stores, replaces or (expiry not in the
\* future) removes the cookie of that name.
DocumentCookieSet(j, str, expires, t) ==
    LET pair  == Head(Split(str, ";"))
        eq    == IndexOfChar(pair, "=")
        name  == IF eq = -1 THEN <<>> ELSE Trim(SubSeq(pair, 1, eq))
        value == IF eq = -1 THEN Trim(pair) ELSE Trim(Substring(pair, eq + 1))
        live  == LiveCookies(j, t)
        entry == [name |-> name, value |-> value, expires |-> expires]
    IN  IF name = <<>> /\ value = <<>> THEN live
        ELSE IF expires <= t THEN SelectSeq(live, LAMBDA c : c.name # name)
        ELSE IF \E i \in 1..Len(live) : live[i].name = name
        THEN [i \in 1..Len(live) |-> IF live[i].name = name THEN entry ELSE live[i]]
        ELSE Append(live, entry)

\* setCookie(name, value, seconds), its clock read at time t.
setCookie(j, name, value, seconds, t) ==
    DocumentCookieSet(j, name \o <<"=">> \o value,
                      toUTCString(t + seconds * MsPerSecond), t)

RECURSIVE FirstMatch(_, _)
FirstMatch(cookies, nameEQ) ==
    IF cookies = <<>> THEN Null
    ELSE LET cookie == Trim(Head(cookies))
         IN  IF StartsWith(cookie, nameEQ) THEN Substring(cookie, Len(nameEQ))
             ELSE FirstMatch(Tail(cookies), nameEQ)

\* getCookie(name) at time t.
getCookie(j, name, t) ==
    FirstMatch(Split(DocumentCookieGet(j, t), ";"), name \o <<"=">>)

\* deleteCookie(name) at time t: an expires attribute of 1 January 1970.
deleteCookie(j, name, t) == DocumentCookieSet(j, name \o <<"=">>, 0, t)

\* ------------------------------------------------------- CooldownManager

\* options.cookieName
CookieName == <<"c", "d">>

\* The texts the manager writes into the error element.
ErrNone == [msg |-> "", k |-> 0]
ErrEnterKey == [msg |-> "enterKey", k |-> 0]
ErrWait(k) == [msg |-> "wait", k |-> k]
ErrHoldOn == [msg |-> "holdOn", k |-> 0]

\* The state a handler works on: the manager and its elements, the pending
\* timers, the cookie store and the callback counters.
World ==
    [cm |-> cm, timers |-> timers, nextId |-> nextId, jar |-> jar,
     endCalls |-> endCalls, successCalls |-> successCalls]

\* clearInterval(id) / clearTimeout(id): one pool of handles; an unknown or
\* null handle clears nothing.
clearTimer(ts, id) == SelectSeq(ts, LAMBDA x : x.id # id)

\* checkCooldown() with Math.floor in place of Math.ceil.
checkCooldownRoundedDown(w, t) ==
    LET expiryTime == getCookie(w.jar, CookieName, t)
        parsed == parseInt(expiryTime)
    IN  IF expiryTime # Null /\ expiryTime # <<>> /\ parsed.ok /\ t < parsed.n
        THEN [cooldown |-> TRUE, remaining |-> (parsed.n - t) \div MsPerSecond]
        ELSE [cooldown |-> FALSE, remaining |-> 0]

\* checkCooldown(): the cookie read at time t, Date.now() = t.

checkCooldown(w, t) ==
    LET expiryTime == getCookie(w.jar, CookieName, t)
        parsed == parseInt(expiryTime)
    IN  IF expiryTime # Null /\ expiryTime # <<>> /\ parsed.ok /\ t < parsed.n
        THEN [cooldown |-> TRUE, remaining |-> CeilDiv(parsed.n - t, MsPerSecond)]
        ELSE [cooldown |-> FALSE, remaining |-> 0]

\* setCooldown(): Date.now() read at t1, setCookie's new Date() at t2 >= t1.
setCooldown(w, t1, t2) ==
    LET expiryTime == t1 + cooldownSeconds * MsPerSecond
    IN  [w EXCEPT !.jar = setCookie(w.jar, CookieName, NumberToString(expiryTime),
                                    cooldownSeconds, t2)]

\* clearCooldown()
clearCooldown(w, t) == [w EXCEPT !.jar = deleteCookie(w.jar, CookieName, t)]

\* clearCooldownState(forceClearMessage)
clearCooldownState(w, forceClearMessage) ==
    LET ts1 == IF w.cm.activeCooldownTimer # 0
               THEN clearTimer(w.timers, w.cm.activeCooldownTimer) ELSE w.timers
        ts2 == IF w.cm.activeCooldownTimeout # 0
               THEN clearTimer(ts1, w.cm.activeCooldownTimeout) ELSE ts1
    IN  [w EXCEPT !.timers = ts2,
                  !.cm = [w.cm EXCEPT !.activeCooldownTimer = 0,
                                      !.activeCooldownTimeout = 0,
                                      !.cooldownActive = FALSE,
                                      !.inputDisabled = FALSE,
                                      !.buttonDisabled = FALSE,
                                      !.buttonText = "default",
                                      !.errorText = IF forceClearMessage THEN ErrNone ELSE @]]

\* updateTimerDisplay, the closure of one startFrontendCooldownTimers call;
\* countdown is the closure's variable.  Yields the new world and countdown.
updateTimerDisplay(w, countdown) ==
    IF w.cm.cooldownActive /\ countdown > 0
    THEN [w |-> [w EXCEPT !.cm.errorText = ErrWait(countdown)],
          countdown |-> countdown - 1]
    ELSE [w |-> [w EXCEPT !.timers = clearTimer(w.timers, w.cm.activeCooldownTimer),
                          !.cm.activeCooldownTimer = 0,
                          !.cm.errorText = IF w.cm.cooldownActive THEN ErrHoldOn ELSE @],
          countdown |-> countdown]

\* A timeout callback that leaves the error text as the countdown left it
\* (line 175 dropped); C1 must tell it from the real one.
cooldownTimeoutCallbackKeepsMessage(w) ==
    LET w1 == [w EXCEPT !.cm.activeCooldownTimer = 0]
        w2 == IF w1.cm.cooldownActive
              THEN [clearCooldownState(w1, FALSE) EXCEPT !.endCalls = @ + 1]
              ELSE clearCooldownState(w1, TRUE)
    IN  [w2 EXCEPT !.cm.activeCooldownTimeout = 0]

\* The callback of the cooldown timeout.
cooldownTimeoutCallback(w) ==
    LET w1 == [w EXCEPT !.cm.activeCooldownTimer = 0]
        w2 == IF w1.cm.cooldownActive
              THEN [clearCooldownState(w1, FALSE) EXCEPT !.cm.errorText = ErrNone,
                                                         !.endCalls = @ + 1]
              ELSE clearCooldownState(w1, TRUE)
    IN  [w2 EXCEPT !.cm.activeCooldownTimeout = 0]

\* startFrontendCooldownTimers with a timeout of one second whatever remaining is.
startFrontendCooldownTimersOneSecond(w, remaining, t) ==
    LET w1 == [w EXCEPT !.cm.inputDisabled = TRUE,
                        !.cm.buttonDisabled = TRUE,
                        !.cm.cooldownActive = TRUE,
                        !.cm.buttonText = "wait"]
        ts1 == IF w1.cm.activeCooldownTimer # 0
               THEN clearTimer(w1.timers, w1.cm.activeCooldownTimer) ELSE w1.timers
        ts2 == IF w1.cm.activeCooldownTimeout # 0
               THEN clearTimer(ts1, w1.cm.activeCooldownTimeout) ELSE ts1
        u == updateTimerDisplay([w1 EXCEPT !.timers = ts2], remaining)
        interval == [id |-> w.nextId, kind |-> "interval", ms |-> MsPerSecond,
                     due |-> t + MsPerSecond, countdown |-> u.countdown]
        timeout == [id |-> w.nextId + 1, kind |-> "timeout", ms |-> MsPerSecond,
                    due |-> t + MsPerSecond, countdown |-> 0]
    IN  [u.w EXCEPT !.timers = u.w.timers \o <<interval, timeout>>,
                    !.nextId = w.nextId + 2,
                    !.cm.activeCooldownTimer = interval.id,
                    !.cm.activeCooldownTimeout = timeout.id]

\* startFrontendCooldownTimers(remaining), called at time t.
startFrontendCooldownTimers(w, remaining, t) ==
    LET w1 == [w EXCEPT !.cm.inputDisabled = TRUE,
                        !.cm.buttonDisabled = TRUE,
                        !.cm.cooldownActive = TRUE,
                        !.cm.buttonText = "wait"]
        ts1 == IF w1.cm.activeCooldownTimer # 0
               THEN clearTimer(w1.timers, w1.cm.activeCooldownTimer) ELSE w1.timers
        ts2 == IF w1.cm.activeCooldownTimeout # 0
               THEN clearTimer(ts1, w1.cm.activeCooldownTimeout) ELSE ts1
        u == updateTimerDisplay([w1 EXCEPT !.timers = ts2], remaining)
        interval == [id |-> w.nextId, kind |-> "interval", ms |-> MsPerSecond,
                     due |-> t + MsPerSecond, countdown |-> u.countdown]
        timeout == [id |-> w.nextId + 1, kind |-> "timeout", ms |-> remaining * MsPerSecond,
                    due |-> t + remaining * MsPerSecond, countdown |-> 0]
    IN  [u.w EXCEPT !.timers = u.w.timers \o <<interval, timeout>>,
                    !.nextId = w.nextId + 2,
                    !.cm.activeCooldownTimer = interval.id,
                    !.cm.activeCooldownTimeout = timeout.id]

\* setVerifyingState()
setVerifyingState(w) ==
    LET ts1 == IF w.cm.activeCooldownTimer # 0
               THEN clearTimer(w.timers, w.cm.activeCooldownTimer) ELSE w.timers
        ts2 == IF w.cm.activeCooldownTimeout # 0
               THEN clearTimer(ts1, w.cm.activeCooldownTimeout) ELSE ts1
    IN  [w EXCEPT !.timers = ts2,
                  !.cm = [w.cm EXCEPT !.buttonDisabled = TRUE,
                                      !.inputDisabled = TRUE,
                                      !.buttonText = "loading",
                                      !.errorText = ErrNone,
                                      !.cooldownActive = FALSE,
                                      !.activeCooldownTimer = 0,
                                      !.activeCooldownTimeout = 0]]

\* A test that accepts every non-empty inputPassword.
passwordAcceptedAnyNonEmpty(inputPassword, correctPassword) == inputPassword # ""

\* The test of line 369, reached only with a non-empty inputPassword (line 359).
passwordAccepted(inputPassword, correctPassword) ==
    inputPassword # "" /\ inputPassword = correctPassword

\* verifyPassword without the empty-input return of lines 359-364.
verifyPasswordNoEmptyCheck(w, inputPassword, correctPassword, t1, t2, t3) ==
    LET w1 == setVerifyingState(w)
    IN  IF inputPassword = correctPassword
        THEN [clearCooldown(clearCooldownState(w1, TRUE), t1)
                  EXCEPT !.successCalls = @ + 1]
        ELSE LET w2 == setCooldown([w1 EXCEPT !.cm.inputValue = ""], t1, t2)
                 cooldownStatus == checkCooldown(w2, t3)
                 w3 == [w2 EXCEPT !.cm.errorText = ErrWait(cooldownStatus.remaining)]
             IN  startFrontendCooldownTimers(w3, cooldownStatus.remaining, t3)

\* verifyPassword(inputPassword, correctPassword, cooldownManager, onSuccess):
\* setCooldown reads the clock at t1, setCookie at t2, checkCooldown and the
\* timers at t3 (t1 <= t2 <= t3).
verifyPassword(w, inputPassword, correctPassword, t1, t2, t3) ==
    IF inputPassword = ""
    THEN [w EXCEPT !.cm.errorText = ErrEnterKey,
                   !.cm.buttonDisabled = FALSE,
                   !.cm.inputDisabled = FALSE]
    ELSE LET w1 == setVerifyingState(w)
         IN  IF passwordAccepted(inputPassword, correctPassword)
             THEN [clearCooldown(clearCooldownState(w1, TRUE), t1)
                       EXCEPT !.successCalls = @ + 1]
             ELSE LET w2 == setCooldown([w1 EXCEPT !.cm.inputValue = ""], t1, t2)
                      cooldownStatus == checkCooldown(w2, t3)
                      w3 == [w2 EXCEPT !.cm.errorText = ErrWait(cooldownStatus.remaining)]
                  IN  startFrontendCooldownTimers(w3, cooldownStatus.remaining, t3)

\* --------------------------------------------------------- JSON and storage

\* JavaScript values, as far as JSON tells them apart.
Undefined == [t |-> "undefined"]
JNull == [t |-> "null"]
JNaN == [t |-> "nan"]
JBool(b) == [t |-> "bool", b |-> b]
JNum(n) == [t |-> "num", n |-> n]
JStr(x) == [t |-> "str", s |-> x]
JArr(items) == [t |-> "arr", items |-> items]
JObj(props) == [t |-> "obj", props |-> props]
Prop(k, v) == [k |-> k, v |-> v]

\* JSON text, as its sequence of tokens.
Tok(k) == [k |-> k, n |-> 0, s |-> ""]
NumTok(n) == [k |-> "num", n |-> n, s |-> ""]
StrTok(x) == [k |-> "str", n |-> 0, s |-> x]

\* JSON.stringify, property by property: the text of a value, or nothing for
\* a value JSON leaves out (undefined).
RECURSIVE SerializeProperty(_), SerializeItems(_), SerializeProps(_, _)
SerializeProperty(v) ==
    CASE v.t = "undefined" -> [defined |-> FALSE, text |-> <<>>]
      [] v.t = "null" -> [defined |-> TRUE, text |-> <<Tok("null")>>]
      [] v.t = "nan" -> [defined |-> TRUE, text |-> <<Tok("null")>>]
      [] v.t = "bool" -> [defined |-> TRUE, text |-> <<Tok(IF v.b THEN "true" ELSE "false")>>]
      [] v.t = "num" -> [defined |-> TRUE, text |-> <<NumTok(v.n)>>]
      [] v.t = "str" -> [defined |-> TRUE, text |-> <<StrTok(v.s)>>]
      [] v.t = "arr" -> [defined |-> TRUE,
                         text |-> <<Tok("[")>> \o SerializeItems(v.items) \o <<Tok("]")>>]
      [] v.t = "obj" -> [defined |-> TRUE,
                         text |-> <<Tok("{")>> \o SerializeProps(v.props, TRUE) \o <<Tok("}")>>]

\* The elements of an array; an element JSON leaves out is written null.
SerializeItems(items) ==
    IF items = <<>> THEN <<>>
    ELSE LET e == SerializeProperty(Head(items))
             one == IF e.defined THEN e.text ELSE <<Tok("null")>>
         IN  IF Len(items) = 1 THEN one
             ELSE one \o <<Tok(",")>> \o SerializeItems(Tail(items))

\* The properties of an object; a property whose value JSON leaves out is
\* dropped.
SerializeProps(props, first) ==
    IF props = <<>> THEN <<>>
    ELSE LET e == SerializeProperty(Head(props).v)
         IN  IF ~e.defined THEN SerializeProps(Tail(props), first)
             ELSE (IF first THEN <<>> ELSE <<Tok(",")>>)
                  \o <<StrTok(Head(props).k), Tok(":")>> \o e.text
                  \o SerializeProps(Tail(props), FALSE)

\* The string localStorage.setItem stores for JSON.stringify(state): the JSON
\* text, or "undefined" when JSON.stringify returns undefined.
JSONstringify(state) ==
    LET e == SerializeProperty(state)
    IN  IF e.defined THEN e.text ELSE <<Tok("undefined")>>

ParseFail == [ok |-> FALSE, v |-> Undefined, rest |-> <<>>]
ParseOk(v, rest) == [ok |-> TRUE, v |-> v, rest |-> rest]

\* Setting a property while parsing: a repeated key keeps its place and takes
\* the later value.
PutProp(props, k, v) ==
    IF \E i \in 1..Len(props) : props[i].k = k
    THEN [i \in 1..Len(props) |-> IF props[i].k = k THEN Prop(k, v) ELSE props[i]]
    ELSE Append(props, Prop(k, v))

RECURSIVE ParseValue(_), ParseElements(_, _), ParseMembers(_, _)
ParseValue(ts) ==
    IF ts = <<>> THEN ParseFail
    ELSE LET h == Head(ts)
             r == Tail(ts)
         IN  CASE h.k = "null" -> ParseOk(JNull, r)
               [] h.k = "true" -> ParseOk(JBool(TRUE), r)
               [] h.k = "false" -> ParseOk(JBool(FALSE), r)
               [] h.k = "num" -> ParseOk(JNum(h.n), r)
               [] h.k = "str" -> ParseOk(JStr(h.s), r)
               [] h.k = "[" -> IF r # <<>> /\ Head(r).k = "]"
                               THEN ParseOk(JArr(<<>>), Tail(r))
                               ELSE ParseElements(r, <<>>)
               [] h.k = "{" -> IF r # <<>> /\ Head(r).k = "}"
                               THEN ParseOk(JObj(<<>>), Tail(r))
                               ELSE ParseMembers(r, <<>>)
               [] OTHER -> ParseFail

ParseElements(ts, acc) ==
    LET e == ParseValue(ts)
    IN  IF ~e.ok \/ e.rest = <<>> THEN ParseFail
        ELSE IF Head(e.rest).k = "," THEN ParseElements(Tail(e.rest), Append(acc, e.v))
        ELSE IF Head(e.rest).k = "]" THEN ParseOk(JArr(Append(acc, e.v)), Tail(e.rest))
        ELSE ParseFail

ParseMembers(ts, acc) ==
    IF Len(ts) < 2 \/ ts[1].k # "str" \/ ts[2].k # ":" THEN ParseFail
    ELSE LET e == ParseValue(SubSeq(ts, 3, Len(ts)))
         IN  IF ~e.ok \/ e.rest = <<>> THEN ParseFail
             ELSE IF Head(e.rest).k = ","
             THEN ParseMembers(Tail(e.rest), PutProp(acc, ts[1].s, e.v))
             ELSE IF Head(e.rest).k = "}"
             THEN ParseOk(JObj(PutProp(acc, ts[1].s, e.v)), Tail(e.rest))
             ELSE ParseFail

\* JSON.parse(text): the value, or a SyntaxError (ok = FALSE).
JSONparse(text) ==
    LET p == ParseValue(text)
    IN  IF p.ok /\ p.rest = <<>> THEN p ELSE ParseFail

NoItem == [present |-> FALSE, text |-> <<>>]
Item(text) == [present |-> TRUE, text |-> text]

\* A load without the try/catch of lines 331-335: a parse error escapes.
loadUnlockedStateNoCatch(store, key, defaultValue) ==
    LET savedItem == store[key]
    IN  IF savedItem.present /\ savedItem.text # <<>>
        THEN LET p == JSONparse(savedItem.text)
             IN  IF p.ok THEN [threw |-> FALSE, value |-> p.v, store |-> store]
                 ELSE [threw |-> TRUE, value |-> Undefined, store |-> store]
        ELSE [threw |-> FALSE, value |-> defaultValue, store |-> store]

\* loadUnlockedState(key, defaultValue): what it returns, or that it threw,
\* and the storage afterwards.
loadUnlockedState(store, key, defaultValue) ==
    LET savedItem == store[key]
    IN  IF savedItem.present /\ savedItem.text # <<>>
        THEN LET p == JSONparse(savedItem.text)
             IN  IF p.ok THEN [threw |-> FALSE, value |-> p.v, store |-> store]
                 ELSE [threw |-> FALSE, value |-> defaultValue, store |-> store]
        ELSE [threw |-> FALSE, value |-> defaultValue, store |-> store]

\* A save that keeps an item already stored under the key.
saveUnlockedStateKeepExisting(store, key, state) ==
    IF store[key].present THEN store
    ELSE [store EXCEPT ![key] = Item(JSONstringify(state))]

\* saveUnlockedState(key, state): the storage afterwards.
saveUnlockedState(store, key, state) ==
    [store EXCEPT ![key] = Item(JSONstringify(state))]

StorageKeys == {"unlocked", "other"}

\* The array and object states the pages save.
StateValues ==
    { JArr(<<>>),
      JArr(<<JNum(1), JBool(TRUE)>>),
      JArr(<<Undefined>>),
      JArr(<<JStr("a"), JNaN>>),
      JArr(<<JArr(<<JNull>>)>>),
      JObj(<<>>),
      JObj(<<Prop("x", JNum(1))>>),
      JObj(<<Prop("x", Undefined), Prop("y", JBool(FALSE))>>),
      JObj(<<Prop("x", JArr(<<JNum(0)>>)), Prop("y", JStr("a"))>>) }

DefaultValues == { JArr(<<>>), JObj(<<Prop("d", JNum(0))>>) }

\* What may sit under a key before the page runs: nothing, the empty string,
\* text that is no JSON, and JSON written earlier.
InitialItems ==
    { NoItem,
      Item(<<>>),
      Item(<<Tok("["), NumTok(1)>>),
      Item(<<Tok("undefined")>>),
      Item(<<Tok("null")>>),
      Item(<<Tok("["), NumTok(1), Tok("]")>>) }

NoCall == [op |-> "none", key |-> "", value |-> Undefined]

StorageInit ==
    /\ storage \in [StorageKeys -> InitialItems]
    /\ ret = [threw |-> FALSE, value |-> Undefined]
    /\ saved = [k \in StorageKeys |-> [set |-> FALSE, state |-> Undefined]]
    /\ lastStorageCall = NoCall
    /\ storageCalls = 0

StorageParked ==
    /\ storage = [k \in StorageKeys |-> NoItem]
    /\ ret = [threw |-> FALSE, value |-> Undefined]
    /\ saved = [k \in StorageKeys |-> [set |-> FALSE, state |-> Undefined]]
    /\ lastStorageCall = NoCall
    /\ storageCalls = 0

LoadUnlockedState ==
    \E key \in StorageKeys, defaultValue \in DefaultValues :
        /\ storageCalls < MaxStorageCalls
        /\ LET r == loadUnlockedState(storage, key, defaultValue)
           IN  /\ ret' = [threw |-> r.threw, value |-> r.value]
               /\ storage' = r.store
        /\ lastStorageCall' = [op |-> "load", key |-> key, value |-> defaultValue]
        /\ storageCalls' = storageCalls + 1
        /\ UNCHANGED saved
        /\ UNCHANGED otherThanStorage

SaveUnlockedState ==
    \E key \in StorageKeys, state \in StateValues :
        /\ storageCalls < MaxStorageCalls
        /\ storage' = saveUnlockedState(storage, key, state)
        /\ saved' = [saved EXCEPT ![key] = [set |-> TRUE, state |-> state]]
        /\ lastStorageCall' = [op |-> "save", key |-> key, value |-> state]
        /\ storageCalls' = storageCalls + 1
        /\ UNCHANGED ret
        /\ UNCHANGED otherThanStorage

StorageNext == LoadUnlockedState \/ SaveUnlockedState

\* ------------------------------------------------------------ AudioPlayer

\* The delay after which setupAutoPlayOnFirstClick binds the click listener.
BindDelay == 100

NoClick == [made |-> FALSE, fresh |-> FALSE, target |-> "none", handlerWas |-> "none",
            settled |-> FALSE, hadPlayed |-> FALSE, playCalls |-> 0, toggles |-> 0,
            rejected |-> FALSE]

NoToggle == [made |-> FALSE, fresh |-> FALSE, settled |-> FALSE,
             wasPlaying |-> FALSE, rejected |-> FALSE]

\* Whether the constructor calls setupControlButton.
listenersRegistered(cfg) == cfg.showControlButton /\ cfg.controlButton

\* updateControlButtonText()
updateControlButtonText(cfg, p) ==
    IF ~cfg.controlButton THEN p
    ELSE [p EXCEPT !.buttonText = IF p.isPlaying THEN "pause" ELSE "play"]

\* setupControlButton(): without a controlButton nothing; otherwise the button
\* text is refreshed and one more click listener and one more play, pause and
\* ended listener are registered.
setupControlButton(cfg, p, n) ==
    IF ~cfg.controlButton THEN [player |-> p, listeners |-> n]
    ELSE [player |-> updateControlButtonText(cfg, p), listeners |-> n + 1]

\* setupAutoPlayOnFirstClick(): one more timeout of BindDelay that will bind a
\* playHandler to the document.
setupAutoPlayOnFirstClick(h, t) ==
    [h EXCEPT !.pending = Append(h.pending, t + BindDelay)]

\* The constructor: the fields start at false, setupControlButton runs only
\* with showControlButton and a controlButton, setupAutoPlayOnFirstClick only
\* with autoPlayOnFirstClick.
NewPlayer == [isPlaying |-> FALSE, played |-> FALSE, buttonText |-> "play"]

NoHandlers == [pending |-> <<>>, bound |-> 0, removed |-> 0]

AudioInit ==
    /\ audioCfg \in [showControlButton : BOOLEAN, controlButton : BOOLEAN,
                     autoPlayOnFirstClick : BOOLEAN]
    /\ audio = [paused |-> TRUE, played |-> FALSE]
    /\ LET s == IF listenersRegistered(audioCfg)
                THEN setupControlButton(audioCfg, NewPlayer, 0)
                ELSE [player |-> NewPlayer, listeners |-> 0]
       IN  /\ player = s.player
           /\ listeners = s.listeners
    /\ clickHandlers = IF audioCfg.autoPlayOnFirstClick
                       THEN setupAutoPlayOnFirstClick(NoHandlers, 0)
                       ELSE NoHandlers
    /\ lastClick = NoClick
    /\ events = <<>>
    /\ lastToggle = NoToggle
    /\ audioSteps = 0

AudioParked ==
    /\ audioCfg = [showControlButton |-> FALSE, controlButton |-> FALSE,
                   autoPlayOnFirstClick |-> FALSE]
    /\ audio = [paused |-> TRUE, played |-> FALSE]
    /\ player = NewPlayer
    /\ listeners = 0
    /\ clickHandlers = NoHandlers
    /\ lastClick = NoClick
    /\ events = <<>>
    /\ lastToggle = NoToggle
    /\ audioSteps = 0

\* The state of the document's playHandlers in one word: bound when a click
\* would run one, pending when only timeouts are left, removed when every one
\* bound so far has run, none when none was ever set up.
clickHandler ==
    IF clickHandlers.bound > 0 THEN "bound"
    ELSE IF clickHandlers.pending # <<>> THEN "pending"
    ELSE IF clickHandlers.removed > 0 THEN "removed"
    ELSE "none"

\* audioElement.play(), allowed by the browser or rejected: a paused element
\* starts and a play event is queued.
elementPlay(a, q, allowed) ==
    IF allowed /\ a.paused
    THEN [audio |-> [a EXCEPT !.paused = FALSE, !.played = TRUE],
          events |-> Append(q, "play")]
    ELSE [audio |-> a, events |-> q]

\* audioElement.pause(): a playing element stops and a pause event is queued.
elementPause(a, q) ==
    IF ~a.paused
    THEN [audio |-> [a EXCEPT !.paused = TRUE], events |-> Append(q, "pause")]
    ELSE [audio |-> a, events |-> q]

\* togglePlay()
togglePlay(p, a, q, allowed) ==
    IF p.isPlaying THEN elementPause(a, q) ELSE elementPlay(a, q, allowed)

\* A listener whose pause and ended handlers leave the button text alone.
onMediaEventStaleButton(cfg, p, e) ==
    IF e = "play"
    THEN updateControlButtonText(cfg, [p EXCEPT !.isPlaying = TRUE, !.played = TRUE])
    ELSE [p EXCEPT !.isPlaying = FALSE]

\* The listener one run of setupControlButton registers for event e.
onMediaEvent(cfg, p, e) ==
    IF e = "play"
    THEN updateControlButtonText(cfg, [p EXCEPT !.isPlaying = TRUE, !.played = TRUE])
    ELSE updateControlButtonText(cfg, [p EXCEPT !.isPlaying = FALSE])

\* Event e is dispatched to the n listeners registered for it, one after the
\* other.
RECURSIVE dispatchEvent(_, _, _, _)
dispatchEvent(cfg, p, e, n) ==
    IF n = 0 THEN p ELSE dispatchEvent(cfg, onMediaEvent(cfg, p, e), e, n - 1)

\* n calls of togglePlay() in one task: isPlaying is the same for all of them.
RECURSIVE togglePlayTimes(_, _, _, _, _)
togglePlayTimes(p, a, q, allowed, n) ==
    IF n = 0 THEN [audio |-> a, events |-> q]
    ELSE LET r == togglePlay(p, a, q, allowed)
         IN  togglePlayTimes(p, r.audio, r.events, allowed, n - 1)

\* playHandler, the document click listener: play() unless played is set.
playHandler(p, a, q, allowed) ==
    IF ~p.played THEN elementPlay(a, q, allowed) ELSE [audio |-> a, events |-> q]

\* n playHandlers run by one click: played is the same for all of them.
RECURSIVE playHandlerTimes(_, _, _, _, _)
playHandlerTimes(p, a, q, allowed, n) ==
    IF n = 0 THEN [audio |-> a, events |-> q]
    ELSE LET r == playHandler(p, a, q, allowed)
         IN  playHandlerTimes(p, r.audio, r.events, allowed, n - 1)

\* togglePlay() called on the player by the page.
TogglePlay ==
    \E allowed \in BOOLEAN :
        /\ audioSteps < MaxAudioSteps
        /\ LET r == togglePlay(player, audio, events, allowed)
           IN  /\ audio' = r.audio
               /\ events' = r.events
        /\ lastToggle' = [made |-> TRUE, fresh |-> TRUE, settled |-> events = <<>>,
                          wasPlaying |-> ~audio.paused,
                          rejected |-> audio.paused /\ ~allowed]
        /\ audioSteps' = audioSteps + 1
        /\ lastClick' = [lastClick EXCEPT !.fresh = FALSE]
        /\ UNCHANGED <<audioCfg, player, listeners, clickHandlers>>
        /\ UNCHANGED otherThanAudio

\* The event loop dispatches the oldest queued media event.
DispatchMediaEvent ==
    /\ events # <<>>
    /\ player' = dispatchEvent(audioCfg, player, Head(events), listeners)
    /\ events' = Tail(events)
    /\ lastToggle' = [lastToggle EXCEPT !.fresh = FALSE]
    /\ lastClick' = [lastClick EXCEPT !.fresh = FALSE]
    /\ UNCHANGED <<audioCfg, audio, audioSteps, listeners, clickHandlers>>
    /\ UNCHANGED otherThanAudio

\* Playback reaches the end of the media.  The element's task for it runs
\* after the events queued before; in that one task the element pauses and the
\* pause and the ended listeners run.
PlaybackEnds ==
    /\ audioSteps < MaxAudioSteps
    /\ ~audio.paused
    /\ events = <<>>
    /\ audio' = [audio EXCEPT !.paused = TRUE]
    /\ player' = dispatchEvent(audioCfg,
                     dispatchEvent(audioCfg, player, "pause", listeners),
                     "ended", listeners)
    /\ lastToggle' = [lastToggle EXCEPT !.fresh = FALSE]
    /\ audioSteps' = audioSteps + 1
    /\ lastClick' = [lastClick EXCEPT !.fresh = FALSE]
    /\ UNCHANGED <<audioCfg, events, listeners, clickHandlers>>
    /\ UNCHANGED otherThanAudio

\* play() called on the player by the page.
Play ==
    \E allowed \in BOOLEAN :
        /\ audioSteps < MaxAudioSteps
        /\ LET r == elementPlay(audio, events, allowed)
           IN  /\ audio' = r.audio
               /\ events' = r.events
        /\ lastToggle' = [lastToggle EXCEPT !.fresh = FALSE]
        /\ lastClick' = [lastClick EXCEPT !.fresh = FALSE]
        /\ audioSteps' = audioSteps + 1
        /\ UNCHANGED <<audioCfg, player, listeners, clickHandlers>>
        /\ UNCHANGED otherThanAudio

\* pause() called on the player by the page.
Pause ==
    /\ audioSteps < MaxAudioSteps
    /\ LET r == elementPause(audio, events)
       IN  /\ audio' = r.audio
           /\ events' = r.events
    /\ lastToggle' = [lastToggle EXCEPT !.fresh = FALSE]
    /\ lastClick' = [lastClick EXCEPT !.fresh = FALSE]
    /\ audioSteps' = audioSteps + 1
    /\ UNCHANGED <<audioCfg, player, listeners, clickHandlers>>
    /\ UNCHANGED otherThanAudio

\* setupControlButton() called on the player by the page.
SetupControlButton ==
    /\ audioSteps < MaxAudioSteps
    /\ LET s == setupControlButton(audioCfg, player, listeners)
       IN  /\ player' = s.player
           /\ listeners' = s.listeners
    /\ lastToggle' = [lastToggle EXCEPT !.fresh = FALSE]
    /\ lastClick' = [lastClick EXCEPT !.fresh = FALSE]
    /\ audioSteps' = audioSteps + 1
    /\ UNCHANGED <<audioCfg, audio, events, clickHandlers>>
    /\ UNCHANGED otherThanAudio

\* setupAutoPlayOnFirstClick() called on the player by the page.
SetupAutoPlayOnFirstClick ==
    /\ audioSteps < MaxAudioSteps
    /\ clickHandlers' = setupAutoPlayOnFirstClick(clickHandlers, now)
    /\ lastToggle' = [lastToggle EXCEPT !.fresh = FALSE]
    /\ lastClick' = [lastClick EXCEPT !.fresh = FALSE]
    /\ audioSteps' = audioSteps + 1
    /\ UNCHANGED <<audioCfg, audio, player, events, listeners>>
    /\ UNCHANGED otherThanAudio

\* The oldest timeout of setupAutoPlayOnFirstClick runs: it binds one
\* playHandler to the document, once.
BindClickHandler ==
    /\ clickHandlers.pending # <<>>
    /\ Head(clickHandlers.pending) <= now
    /\ clickHandlers' = [clickHandlers EXCEPT !.pending = Tail(@), !.bound = @ + 1]
    /\ lastToggle' = [lastToggle EXCEPT !.fresh = FALSE]
    /\ lastClick' = [lastClick EXCEPT !.fresh = FALSE]
    /\ UNCHANGED <<audioCfg, audio, player, events, audioSteps, listeners>>
    /\ UNCHANGED otherThanAudio

\* The user clicks somewhere in the document other than a control button with
\* a click listener: every bound playHandler runs and is removed
\* ({ once: true }).
ClickDocument ==
    \E allowed \in BOOLEAN :
        /\ audioSteps < MaxAudioSteps
        /\ LET n == clickHandlers.bound
               r == playHandlerTimes(player, audio, events, allowed, n)
           IN  /\ audio' = r.audio
               /\ events' = r.events
               /\ clickHandlers' = [clickHandlers EXCEPT !.bound = 0, !.removed = @ + n]
               /\ lastClick' = [made |-> TRUE, fresh |-> TRUE, target |-> "document",
                                handlerWas |-> clickHandler,
                                settled |-> events = <<>>,
                                hadPlayed |-> audio.played,
                                playCalls |-> IF ~player.played THEN n ELSE 0,
                                toggles |-> 0,
                                rejected |-> n > 0 /\ ~player.played /\ audio.paused /\ ~allowed]
        /\ lastToggle' = [lastToggle EXCEPT !.fresh = FALSE]
        /\ audioSteps' = audioSteps + 1
        /\ UNCHANGED <<audioCfg, player, listeners>>
        /\ UNCHANGED otherThanAudio

\* The user clicks a control button that has click listeners: each of them
\* stops the propagation and calls togglePlay().
ClickControlButton ==
    \E allowed \in BOOLEAN :
        /\ audioSteps < MaxAudioSteps
        /\ listeners > 0
        /\ LET before == togglePlayTimes(player, audio, events, allowed, listeners - 1)
               r == togglePlay(player, before.audio, before.events, allowed)
           IN  /\ audio' = r.audio
               /\ events' = r.events
               /\ lastToggle' = [made |-> TRUE, fresh |-> TRUE,
                                 settled |-> before.events = <<>>,
                                 wasPlaying |-> ~before.audio.paused,
                                 rejected |-> before.audio.paused /\ ~allowed]
        /\ lastClick' = [made |-> TRUE, fresh |-> TRUE, target |-> "button",
                         handlerWas |-> clickHandler,
                         settled |-> events = <<>>,
                         hadPlayed |-> audio.played,
                         playCalls |-> 0,
                         toggles |-> listeners,
                         rejected |-> ~player.isPlaying /\ audio.paused /\ ~allowed]
        /\ audioSteps' = audioSteps + 1
        /\ UNCHANGED <<audioCfg, player, listeners, clickHandlers>>
        /\ UNCHANGED otherThanAudio

\* Time passes on the page with the player.
AudioTick ==
    /\ now < MaxAudioTime
    /\ now' = now + BindDelay
    /\ UNCHANGED audioVars
    /\ UNCHANGED otherThanAudioAndClock

AudioNext ==
    \/ TogglePlay
    \/ DispatchMediaEvent
    \/ PlaybackEnds
    \/ Play
    \/ Pause
    \/ SetupControlButton
    \/ SetupAutoPlayOnFirstClick
    \/ BindClickHandler
    \/ ClickDocument
    \/ ClickControlButton
    \/ AudioTick

\* --------------------------------------------------------- the final-key page

\* domain of what the user types into the input
TypedKeys == {"", "key", "bad"}

\* data.finalKey of keys.json: a string, or missing.
ServerKeys == {[defined |-> TRUE, s |-> "key"], [defined |-> TRUE, s |-> ""],
               [defined |-> FALSE, s |-> ""]}

UndefinedKey == [defined |-> FALSE, s |-> ""]

NavigationDelay == 1000
ResetDelay == 1000

PageInit ==
    /\ fetchState = "pending"
    /\ serverKey \in ServerKeys
    /\ finalKey = UndefinedKey
    /\ input = [value |-> "", disabled |-> FALSE, borderColor |-> "initial",
                backgroundColor |-> "initial"]
    /\ pageTimers = <<>>
    /\ location = "/two/newpage"
    /\ lastCheck = [made |-> FALSE, fetch |-> "pending", entered |-> "", branch |-> "none"]
    /\ navigation = [done |-> FALSE, at |-> 0, scheduledAt |-> 0, inputDisabled |-> FALSE]

PageParked ==
    /\ fetchState = "pending"
    /\ serverKey = UndefinedKey
    /\ finalKey = UndefinedKey
    /\ input = [value |-> "", disabled |-> FALSE, borderColor |-> "initial",
                backgroundColor |-> "initial"]
    /\ pageTimers = <<>>
    /\ location = "/two/newpage"
    /\ lastCheck = [made |-> FALSE, fetch |-> "pending", entered |-> "", branch |-> "none"]
    /\ navigation = [done |-> FALSE, at |-> 0, scheduledAt |-> 0, inputDisabled |-> FALSE]

\* A comparison that takes an undefined finalKey for the empty string.
looseEquals(enteredKey, key) == enteredKey = key.s

\* enteredKey === finalKey, for a string enteredKey.
strictEquals(enteredKey, key) == key.defined /\ enteredKey = key.s

\* checkFinalPassword() at time t: the input afterwards and the timeout it sets.
checkFinalPassword(inp, key, t) ==
    LET enteredKey == inp.value
    IN  IF strictEquals(enteredKey, key)
        THEN [input |-> [inp EXCEPT !.borderColor = "#4CAF50",
                                    !.backgroundColor = "#1a5f20",
                                    !.value = "keyCorrect",
                                    !.disabled = TRUE],
              timer |-> [kind |-> "navigate", due |-> t + NavigationDelay,
                         scheduledAt |-> t, entered |-> enteredKey, key |-> key],
              branch |-> "success"]
        ELSE [input |-> [inp EXCEPT !.borderColor = "#f44336",
                                    !.backgroundColor = "#5f1a1a",
                                    !.value = "keyWrong"],
              timer |-> [kind |-> "reset", due |-> t + ResetDelay,
                         scheduledAt |-> t, entered |-> enteredKey, key |-> key],
              branch |-> "error"]

OnPage == location = "/two/newpage"

PageCallWindow == now <= MaxPageCallTime

\* The fetch of keys.json resolves and the page stores data.finalKey.
FetchResolves ==
    /\ OnPage /\ fetchState = "pending"
    /\ fetchState' = "loaded"
    /\ finalKey' = serverKey
    /\ UNCHANGED <<now, serverKey, input, pageTimers, location, lastCheck, navigation>>
    /\ UNCHANGED otherThanPage

\* A failed fetch that leaves the empty string in finalKey.
FetchFailsStoresEmptyKey ==
    /\ OnPage /\ fetchState = "pending"
    /\ fetchState' = "failed"
    /\ finalKey' = [defined |-> TRUE, s |-> ""]
    /\ UNCHANGED <<now, serverKey, input, pageTimers, location, lastCheck, navigation>>
    /\ UNCHANGED otherThanPage

\* The fetch fails, or its body is no JSON: the error is logged.
FetchFails ==
    /\ OnPage /\ fetchState = "pending"
    /\ fetchState' = "failed"
    /\ UNCHANGED <<now, serverKey, finalKey, input, pageTimers, location, lastCheck, navigation>>
    /\ UNCHANGED otherThanPage

\* The user types a key into the input.
TypeKey ==
    \E v \in TypedKeys :
        /\ OnPage /\ ~input.disabled /\ input.value # v
        /\ input' = [input EXCEPT !.value = v]
        /\ UNCHANGED <<now, fetchState, serverKey, finalKey, pageTimers, location, lastCheck,
                       navigation>>
        /\ UNCHANGED otherThanPage

\* checkFinalPassword() is called: by handleKeyPress when Enter is pressed in
\* the input, or directly (the function is global).  It does not look at
\* input.disabled.
CheckFinalPassword ==
    /\ OnPage /\ PageCallWindow
    /\ Len(pageTimers) < MaxChecks
    /\ LET r == checkFinalPassword(input, finalKey, now)
       IN  /\ input' = r.input
           /\ pageTimers' = Append(pageTimers, r.timer)
           /\ lastCheck' = [made |-> TRUE, fetch |-> fetchState, entered |-> input.value,
                            branch |-> r.branch]
    /\ UNCHANGED <<now, fetchState, serverKey, finalKey, location, navigation>>
    /\ UNCHANGED otherThanPage

\* The oldest timeout falls due and its callback runs.
PageTimeoutFires ==
    /\ OnPage /\ pageTimers # <<>> /\ Head(pageTimers).due <= now
    /\ pageTimers' = Tail(pageTimers)
    /\ IF Head(pageTimers).kind = "navigate"
       THEN /\ location' = "/two/finalpage"
            /\ navigation' = [done |-> TRUE, at |-> now,
                              scheduledAt |-> Head(pageTimers).scheduledAt,
                              inputDisabled |-> input.disabled]
            /\ UNCHANGED input
       ELSE /\ input' = [input EXCEPT !.value = "",
                                      !.borderColor = "#444",
                                      !.backgroundColor = "#222"]
            /\ UNCHANGED <<location, navigation>>
    /\ UNCHANGED <<now, fetchState, serverKey, finalKey, lastCheck>>
    /\ UNCHANGED otherThanPage

\* Time passes on the page, up to the next due timeout or half second.
PageTick ==
    /\ OnPage
    /\ \A i \in 1..Len(pageTimers) : pageTimers[i].due > now
    /\ LET next == Min({NextAtOffset(now, 0), NextAtOffset(now, 500)}
                       \cup {pageTimers[i].due : i \in 1..Len(pageTimers)})
       IN  /\ next <= MaxPageCallTime + NavigationDelay
           /\ now' = next
    /\ UNCHANGED pageVars
    /\ UNCHANGED otherThanPage

PageNext ==
    \/ FetchResolves
    \/ FetchFails
    \/ TypeKey
    \/ CheckFinalPassword
    \/ PageTimeoutFires
    \/ PageTick

\* ------------------------------------------------------------- the clock

\* Offsets within a second at which the model lets calls happen.
GridOffsets == {0, 999}


\* The next instant at which something can happen: a grid point, a timer
\* falling due, a cookie expiring.
NextInstant ==
    Min({NextAtOffset(now, o) : o \in GridOffsets}
        \cup {timers[i].due : i \in {j \in 1..Len(timers) : timers[j].due > now}}
        \cup {jar[i].expires : i \in {j \in 1..Len(jar) : jar[j].expires > now}})

\* Calls are made up to MaxCallTime; time is explored until every timer such a
\* call starts has fallen due.
CallWindow == now <= MaxCallTime

Horizon == MaxCallTime + 2 * MaxDrift + MaxCooldownSeconds * MsPerSecond

Passwords == {"", "a", "b"}
CorrectPasswords == {"", "a"}
InputTexts == {"", "a"}

\* A timer may run once it is due; of two due timers, one whose wait started
\* earlier and is no longer runs first (the HTML timer ordering).
CanFire(i) ==
    /\ timers[i].due <= now
    /\ \A j \in 1..(i - 1) : timers[j].ms > timers[i].ms

TimerDue == \E i \in 1..Len(timers) : timers[i].due <= now

RemoveAt(ts, i) == SubSeq(ts, 1, i - 1) \o SubSeq(ts, i + 1, Len(ts))

\* ------------------------------------------------------------- the actions

Commit(w, t) ==
    /\ now' = t
    /\ cm' = w.cm
    /\ timers' = w.timers
    /\ nextId' = w.nextId
    /\ jar' = LiveCookies(w.jar, t)
    /\ endCalls' = w.endCalls
    /\ successCalls' = w.successCalls
    /\ UNCHANGED otherThanCooldown

Called(op, inputPassword, correctPassword, arg) ==
    /\ callCount' = callCount + 1
    /\ lastCall' = [op |-> op, input |-> inputPassword, correct |-> correctPassword, arg |-> arg,
                    at |-> now, fresh |-> TRUE,
                    wasActive |-> cm.cooldownActive,
                    hadCookie |-> getCookie(jar, CookieName, now) # Null]

CallStart == [World EXCEPT !.endCalls = 0, !.successCalls = 0]

NotACall ==
    /\ callCount' = callCount
    /\ lastCall' = [lastCall EXCEPT !.fresh = FALSE]

VerifyPassword ==
    \E inputPassword \in Passwords, correctPassword \in CorrectPasswords,
        d1 \in 0..drift, d2 \in 0..drift :
        /\ callCount < MaxCalls /\ CallWindow
        /\ (inputPassword = "" \/ inputPassword = correctPassword) => (d1 = 0 /\ d2 = 0)
        /\ Commit(verifyPassword(CallStart, inputPassword, correctPassword, now, now + d1, now + d1 + d2),
                  now + d1 + d2)
        /\ Called("verifyPassword", inputPassword, correctPassword, 0)
        /\ UNCHANGED <<cooldownSeconds, drift>>

SetCooldown ==
    \E d1 \in 0..drift :
        /\ callCount < MaxCalls /\ CallWindow
        /\ Commit(setCooldown(CallStart, now, now + d1), now + d1)
        /\ Called("setCooldown", "", "", 0)
        /\ UNCHANGED <<cooldownSeconds, drift>>

ClearCooldown ==
    /\ callCount < MaxCalls /\ CallWindow
    /\ Commit(clearCooldown(CallStart, now), now)
    /\ Called("clearCooldown", "", "", 0)
    /\ UNCHANGED <<cooldownSeconds, drift>>

StartFrontendCooldownTimers ==
    \E remaining \in 1..MaxCooldownSeconds :
        /\ callCount < MaxCalls /\ CallWindow
        /\ Commit(startFrontendCooldownTimers(CallStart, remaining, now), now)
        /\ Called("startFrontendCooldownTimers", "", "", remaining)
        /\ UNCHANGED <<cooldownSeconds, drift>>

SetVerifyingState ==
    /\ callCount < MaxCalls /\ CallWindow
    /\ Commit(setVerifyingState(CallStart), now)
    /\ Called("setVerifyingState", "", "", 0)
    /\ UNCHANGED <<cooldownSeconds, drift>>

ClearCooldownState ==
    \E force \in BOOLEAN :
        /\ callCount < MaxCalls /\ CallWindow
        /\ Commit(clearCooldownState(CallStart, force), now)
        /\ Called("clearCooldownState", "", "", IF force THEN 1 ELSE 0)
        /\ UNCHANGED <<cooldownSeconds, drift>>

\* checkCooldown() called from outside; lastCall.result is what it returned.
CheckCooldown ==
    /\ callCount < MaxCalls /\ CallWindow
    /\ Commit(CallStart, now)
    /\ callCount' = callCount + 1
    /\ lastCall' = [op |-> "checkCooldown", input |-> "", correct |-> "", arg |-> 0,
                    at |-> now, fresh |-> TRUE,
                    wasActive |-> cm.cooldownActive,
                    hadCookie |-> getCookie(jar, CookieName, now) # Null,
                    result |-> checkCooldown(World, now)]
    /\ UNCHANGED <<cooldownSeconds, drift>>

\* The user types into the input element.
TypeInput ==
    \E v \in InputTexts :
        /\ ~cm.inputDisabled /\ v # cm.inputValue
        /\ cm' = [cm EXCEPT !.inputValue = v]
        /\ NotACall
        /\ UNCHANGED <<now, jar, cooldownSeconds, drift, timers, nextId, successCalls, endCalls>>
        /\ UNCHANGED otherThanCooldown

\* One run of an interval's callback, and its re-arming unless it was cleared.
IntervalTick ==
    \E i \in 1..Len(timers) :
        /\ timers[i].kind = "interval" /\ CanFire(i)
        /\ LET T == timers[i]
               u == updateTimerDisplay(World, T.countdown)
               rearmed == [T EXCEPT !.due = now + T.ms, !.countdown = u.countdown]
           IN  Commit([u.w EXCEPT !.timers =
                          IF \E j \in 1..Len(u.w.timers) : u.w.timers[j].id = T.id
                          THEN Append(clearTimer(u.w.timers, T.id), rearmed)
                          ELSE u.w.timers], now)
        /\ NotACall
        /\ UNCHANGED <<cooldownSeconds, drift>>

\* The cooldown timeout runs.
TimeoutFire ==
    \E i \in 1..Len(timers) :
        /\ timers[i].kind = "timeout" /\ CanFire(i)
        /\ Commit(cooldownTimeoutCallback([World EXCEPT !.timers = RemoveAt(timers, i)]), now)
        /\ NotACall
        /\ UNCHANGED <<cooldownSeconds, drift>>

\* Time passes up to the next instant; expired cookies leave the store.
Tick ==
    /\ ~TimerDue
    /\ NextInstant <= Horizon
    /\ now' = NextInstant
    /\ jar' = LiveCookies(jar, now')
    /\ NotACall
    /\ UNCHANGED <<cooldownSeconds, drift, cm, timers, nextId, successCalls, endCalls>>
    /\ UNCHANGED otherThanCooldown

CooldownInit ==
    /\ now = 0
    /\ jar = <<>>
    /\ cooldownSeconds \in 1..MaxCooldownSeconds
    /\ drift \in {0, MaxDrift}
    /\ cm = [inputDisabled |-> FALSE, buttonDisabled |-> FALSE, cooldownActive |-> FALSE,
             buttonText |-> "default", errorText |-> ErrNone, inputValue |-> "",
             activeCooldownTimer |-> 0, activeCooldownTimeout |-> 0]
    /\ timers = <<>>
    /\ nextId = 1
    /\ lastCall = [op |-> "constructor", input |-> "", correct |-> "", arg |-> 0,
                   at |-> 0, fresh |-> TRUE, wasActive |-> FALSE, hadCookie |-> FALSE]
    /\ successCalls = 0
    /\ endCalls = 0
    /\ callCount = 0

Next ==
    \/ VerifyPassword
    \/ SetCooldown
    \/ ClearCooldown
    \/ StartFrontendCooldownTimers
    \/ SetVerifyingState
    \/ ClearCooldownState
    \/ CheckCooldown
    \/ TypeInput
    \/ IntervalTick
    \/ TimeoutFire
    \/ Tick

CooldownParked ==
    /\ now = 0
    /\ jar = <<>>
    /\ cooldownSeconds = 1
    /\ drift = 0
    /\ cm = [inputDisabled |-> FALSE, buttonDisabled |-> FALSE, cooldownActive |-> FALSE,
             buttonText |-> "default", errorText |-> ErrNone, inputValue |-> "",
             activeCooldownTimer |-> 0, activeCooldownTimeout |-> 0]
    /\ timers = <<>>
    /\ nextId = 1
    /\ lastCall = [op |-> "constructor", input |-> "", correct |-> "", arg |-> 0,
                   at |-> 0, fresh |-> TRUE, wasActive |-> FALSE, hadCookie |-> FALSE]
    /\ successCalls = 0
    /\ endCalls = 0
    /\ callCount = 0

\* ------------------------------------------------- the cookie helpers alone

\* Names one of which begins or ends another.
CookieNames == {<<"a">>, <<"a", "b">>, <<"b">>}

CookieValues == {<<>>, <<"x">>, <<"x", "=", "y">>, <<"x", ";", "y">>}

CookieParked ==
    /\ ck = [n \in CookieNames |-> [set |-> FALSE, value |-> <<>>, expires |-> 0]]
    /\ cookieCalls = 0

CookieHorizon == (MaxCookieSeconds + 1) * MsPerSecond

SetCookie ==
    \E name \in CookieNames, value \in CookieValues, seconds \in 1..MaxCookieSeconds :
        /\ cookieCalls < MaxCookieCalls
        /\ jar' = setCookie(jar, name, value, seconds, now)
        /\ ck' = [ck EXCEPT ![name] =
                     [set |-> TRUE, value |-> value,
                      expires |-> toUTCString(now + seconds * MsPerSecond)]]
        /\ cookieCalls' = cookieCalls + 1
        /\ UNCHANGED now
        /\ UNCHANGED otherThanCookies

DeleteCookie ==
    \E name \in CookieNames :
        /\ cookieCalls < MaxCookieCalls
        /\ jar' = deleteCookie(jar, name, now)
        /\ ck' = [ck EXCEPT ![name] = [set |-> FALSE, value |-> <<>>, expires |-> 0]]
        /\ cookieCalls' = cookieCalls + 1
        /\ UNCHANGED now
        /\ UNCHANGED otherThanCookies

\* Time passes up to the next instant; expired cookies leave the store.
CookieTick ==
    /\ NextInstant <= CookieHorizon
    /\ now' = NextInstant
    /\ jar' = LiveCookies(jar, now')
    /\ UNCHANGED cookieVars
    /\ UNCHANGED otherThanCookies

CookieNext == SetCookie \/ DeleteCookie \/ CookieTick

Init == CooldownInit /\ StorageParked /\ CookieParked /\ AudioParked /\ PageParked

Spec == Init /\ [][Next]_vars

\* The unlock-state storage alone.
StorageSpecInit ==
    StorageInit /\ CooldownParked /\ CookieParked /\ AudioParked /\ PageParked

StorageSpec == StorageSpecInit /\ [][StorageNext]_vars

\* The cookie helpers alone.
CookieSpecInit ==
    CooldownParked /\ StorageParked /\ CookieParked /\ AudioParked /\ PageParked

CookieSpec == CookieSpecInit /\ [][CookieNext]_vars

\* The AudioPlayer alone.
AudioSpecInit ==
    AudioInit /\ CooldownParked /\ StorageParked /\ CookieParked /\ PageParked

AudioSpec == AudioSpecInit /\ [][AudioNext]_vars

\* The final-key page alone.
PageSpecInit ==
    PageInit /\ CooldownParked /\ StorageParked /\ CookieParked /\ AudioParked

PageSpec == PageSpecInit /\ [][PageNext]_vars

\* One-sided fairness of the event loop: a due timer runs, and time goes on.
\* The manager driven by verifyPassword calls and timer callbacks only.
VerifyNext ==
    \/ VerifyPassword
    \/ TypeInput
    \/ IntervalTick
    \/ TimeoutFire
    \/ Tick

VerifySpec == Init /\ [][VerifyNext]_vars

FairSpec ==
    Spec /\ WF_vars(Tick) /\ WF_vars(IntervalTick) /\ WF_vars(TimeoutFire)

\* ------------------------------------------------------------- the claims

\* The most recent call was verifyPassword with a non-empty wrong password.
WrongVerify ==
    /\ lastCall.op = "verifyPassword"
    /\ lastCall.input # ""
    /\ lastCall.input # lastCall.correct

\* The most recent call was verifyPassword with the correct non-empty password.
CorrectVerify ==
    /\ lastCall.op = "verifyPassword"
    /\ lastCall.input # ""
    /\ lastCall.input = lastCall.correct

Idle ==
    /\ ~cm.inputDisabled
    /\ ~cm.buttonDisabled
    /\ ~cm.cooldownActive
    /\ cm.buttonText = "default"
    /\ cm.errorText = ErrNone

PendingIntervals == {i \in 1..Len(timers) : timers[i].kind = "interval"}
PendingTimeouts == {i \in 1..Len(timers) : timers[i].kind = "timeout"}

\* C1: after verifyPassword with a non-empty wrong password, and no further
\* call on the manager, the cooldown timeout eventually runs and leaves the
\* manager idle (controls enabled, class removed, default button text, empty
\* error text) with onCooldownEnd invoked exactly once; it is never invoked a
\* second time and the manager stays idle from then on.
C1_CooldownReturnsToIdle ==
    /\ \A n \in 1..MaxCalls :
          (callCount = n /\ WrongVerify) ~> (callCount # n \/ (Idle /\ endCalls = 1))
    /\ [](WrongVerify => (endCalls <= 1 /\ (endCalls = 1 => Idle)))

C1_Witness ==
    /\ WrongVerify
    /\ lastCall.wasActive
    /\ endCalls = 1
    /\ Idle
    /\ timers = <<>>
    /\ now = lastCall.at + cooldownSeconds * MsPerSecond

\* C2: onSuccess is invoked exactly once by a verifyPassword call whose
\* inputPassword is non-empty and equal to correctPassword, and by no other
\* call, whether or not a cooldown is in effect.
C2_OnSuccessIffAccepted ==
    successCalls =
        IF /\ lastCall.op = "verifyPassword"
           /\ lastCall.input # ""
           /\ lastCall.input = lastCall.correct
        THEN 1 ELSE 0

C2_Witness ==
    /\ CorrectVerify
    /\ successCalls = 1
    /\ lastCall.wasActive
    /\ lastCall.hadCookie

\* C3 (already with a clock that stands still during a call): right after
\* verifyPassword with a non-empty wrong password the cookie
\* holds now + cooldownSeconds*1000, checkCooldown() gives cooldown = true and
\* remaining = cooldownSeconds, the controls are disabled, the class is set,
\* the input is cleared and exactly one interval and one timeout are pending.
C3_CooldownInEffect ==
    (WrongVerify /\ lastCall.fresh /\ drift = 0) =>
        /\ getCookie(jar, CookieName, now)
               = NumberToString(lastCall.at + cooldownSeconds * MsPerSecond)
        /\ checkCooldown(World, now) = [cooldown |-> TRUE, remaining |-> cooldownSeconds]
        /\ cm.inputDisabled
        /\ cm.buttonDisabled
        /\ cm.cooldownActive
        /\ cm.inputValue = ""
        /\ Cardinality(PendingIntervals) = 1
        /\ Cardinality(PendingTimeouts) = 1

\* C4 (already with a clock that stands still during a call): right after
\* verifyPassword with the correct non-empty password no cooldown remains: no cookie, checkCooldown() gives {false, 0}, both handles
\* are null and no timer is pending, the class is absent, the controls are
\* enabled and the error text is empty.
C4_NoCooldownAfterSuccess ==
    (CorrectVerify /\ lastCall.fresh /\ drift = 0) =>
        /\ getCookie(jar, CookieName, now) = Null
        /\ checkCooldown(World, now) = [cooldown |-> FALSE, remaining |-> 0]
        /\ cm.activeCooldownTimer = 0
        /\ cm.activeCooldownTimeout = 0
        /\ timers = <<>>
        /\ ~cm.cooldownActive
        /\ ~cm.inputDisabled
        /\ ~cm.buttonDisabled
        /\ cm.errorText = ErrNone

\* C5: the cooldown cookie is absent or its value is a millisecond timestamp
\* strictly greater than the current time.
C5_CookieIsFutureOrAbsent ==
    LET v == getCookie(jar, CookieName, now)
    IN  v # Null => (parseInt(v).ok /\ parseInt(v).n > now)

\* The item read by the most recent load.
LoadedItem == storage[lastStorageCall.key]

\* A stored item that loadUnlockedState cannot use.
Unusable(item) == ~item.present \/ item.text = <<>> \/ ~JSONparse(item.text).ok

LoadStep == storageCalls' = storageCalls + 1 /\ lastStorageCall'.op = "load"
SaveStep == storageCalls' = storageCalls + 1 /\ lastStorageCall'.op = "save"

\* C6: loadUnlockedState never throws, returns defaultValue whenever the stored
\* value is absent, empty or not parseable as JSON, and leaves local storage
\* unchanged.
C6_LoadDefaultsAndKeepsStorage ==
    /\ [](lastStorageCall.op = "load" =>
             /\ ~ret.threw
             /\ Unusable(LoadedItem) => ret.value = lastStorageCall.value)
    /\ [][LoadStep => storage' = storage]_vars

C6_Witness ==
    /\ lastStorageCall.op = "load"
    /\ LoadedItem.present
    /\ LoadedItem.text # <<>>
    /\ ~JSONparse(LoadedItem.text).ok
    /\ ret.value = lastStorageCall.value
    /\ ~ret.threw

\* Values that JSON text can hold: null, booleans, finite numbers, strings,
\* and arrays and plain objects of such values.
RECURSIVE IsJsonValue(_)
IsJsonValue(v) ==
    CASE v.t \in {"null", "bool", "num", "str"} -> TRUE
      [] v.t = "arr" -> \A i \in 1..Len(v.items) : IsJsonValue(v.items[i])
      [] v.t = "obj" -> \A i \in 1..Len(v.props) : IsJsonValue(v.props[i].v)
      [] OTHER -> FALSE

\* C7 as stated: a load after a save under the same key returns a value equal
\* to the saved state, for every array or object state.
C7_RoundTripEveryState ==
    (lastStorageCall.op = "load" /\ saved[lastStorageCall.key].set) =>
        (~ret.threw /\ ret.value = saved[lastStorageCall.key].state)

\* C7 as amended: a load after a save under the same key returns a value equal
\* to the state saved last under that key, for every array or object state
\* made of null, booleans, finite numbers, strings, arrays and plain objects;
\* and a save under one key changes what a load returns for no other key.
C7_RoundTripJsonState ==
    /\ []((/\ lastStorageCall.op = "load"
           /\ saved[lastStorageCall.key].set
           /\ IsJsonValue(saved[lastStorageCall.key].state)) =>
              (~ret.threw /\ ret.value = saved[lastStorageCall.key].state))
    /\ [][SaveStep =>
            \A k \in StorageKeys \ {lastStorageCall'.key} : \A d \in DefaultValues :
                loadUnlockedState(storage', k, d).value = loadUnlockedState(storage, k, d).value]_vars

C7_Witness ==
    /\ lastStorageCall.op = "load"
    /\ storageCalls >= 3
    /\ LoadedItem \notin InitialItems
    /\ \A k \in StorageKeys : saved[k].set
    /\ IsJsonValue(saved[lastStorageCall.key].state)
    /\ ret.value = saved[lastStorageCall.key].state
    /\ ret.value # lastStorageCall.value

\* C8: before its expiry getCookie(name) returns exactly the value setCookie
\* stored; after deleteCookie(name), or once expired, it returns null; and
\* neither call changes what getCookie returns for another name.
C8_CookieRoundTrip ==
    \A n \in CookieNames :
        getCookie(jar, n, now) =
            IF ck[n].set /\ now < ck[n].expires THEN ck[n].value ELSE Null

NavigateTimers == {i \in 1..Len(pageTimers) : pageTimers[i].kind = "navigate"}

\* C9: togglePlay() toggles for every configuration: once the element's events
\* are delivered, a toggle the browser does not refuse leaves the audio paused
\* if it was playing and playing if it was paused or ended.
C9_ToggleIsPlayPause ==
    (/\ lastToggle.made
     /\ lastToggle.fresh
     /\ lastToggle.settled
     /\ ~lastToggle.rejected) => audio.paused = lastToggle.wasPlaying

\* C10: a navigation is scheduled only by a checkFinalPassword call whose
\* input value strictly equals the finalKey loaded from keys.json, it happens
\* NavigationDelay later with the input disabled, and while the fetch is
\* pending every entered key takes the error branch and none is scheduled.
C10_NavigationOnlyByLoadedKey ==
    /\ \A i \in NavigateTimers :
          /\ fetchState = "loaded"
          /\ pageTimers[i].key = serverKey
          /\ pageTimers[i].key.defined
          /\ pageTimers[i].entered = pageTimers[i].key.s
          /\ input.disabled
    /\ location = "/two/finalpage" <=> navigation.done
    /\ navigation.done =>
          /\ fetchState = "loaded"
          /\ navigation.at = navigation.scheduledAt + NavigationDelay
          /\ navigation.inputDisabled
    /\ (lastCheck.made /\ lastCheck.fetch = "pending") => lastCheck.branch = "error"
    /\ fetchState = "pending" => NavigateTimers = {}

C10_Witness ==
    /\ navigation.done
    /\ navigation.scheduledAt > 0
    /\ lastCheck.branch = "success"
    /\ lastCheck.entered = serverKey.s

\* C11: a failed keys.json request is only logged: it is never issued again
\* (the request stays failed), finalKey stays undefined, every later
\* checkFinalPassword call takes the error branch and no navigation is
\* scheduled or made.
C11_FailedFetchOnlyLogged ==
    /\ [](fetchState = "failed" =>
             /\ finalKey = UndefinedKey
             /\ NavigateTimers = {}
             /\ ~navigation.done
             /\ location = "/two/newpage"
             /\ (lastCheck.made /\ lastCheck.fetch = "failed") => lastCheck.branch = "error")
    /\ [][fetchState = "failed" => (fetchState' = "failed" /\ finalKey' = finalKey)]_vars

C11_Witness ==
    /\ fetchState = "failed"
    /\ lastCheck.made
    /\ lastCheck.fetch = "failed"
    /\ serverKey.defined
    /\ lastCheck.entered = serverKey.s
    /\ lastCheck.branch = "error"
    /\ Len(pageTimers) >= 2

\* The cooldown cookie as the browser holds it at the current time.
CooldownCookie == getCookie(jar, CookieName, now)

\* What C12 says checkCooldown() returns in the current state.
ExpectedStatus ==
    IF CooldownCookie # Null /\ parseInt(CooldownCookie).ok /\ now < parseInt(CooldownCookie).n
    THEN [cooldown |-> TRUE,
          remaining |-> CHOOSE k \in 1..(MaxCooldownSeconds + 1) :
                           /\ k * MsPerSecond >= parseInt(CooldownCookie).n - now
                           /\ (k - 1) * MsPerSecond < parseInt(CooldownCookie).n - now]
    ELSE [cooldown |-> FALSE, remaining |-> 0]

CheckStep == callCount' # callCount /\ lastCall'.op = "checkCooldown"

\* C12: checkCooldown() returns {true, ceil((expiry - now) / 1000)} exactly when
\* the cookie is present and now < expiry and {false, 0} otherwise; cooldown is
\* true iff remaining >= 1, remaining never exceeds cooldownSeconds, and the
\* call changes neither the cookie nor any timer or UI state.
C12_CheckCooldownResult ==
    /\ [](/\ checkCooldown(World, now) = ExpectedStatus
          /\ ExpectedStatus.cooldown <=> ExpectedStatus.remaining >= 1
          /\ ExpectedStatus.remaining <= cooldownSeconds)
    /\ []((lastCall.op = "checkCooldown" /\ lastCall.fresh) =>
             lastCall.result = ExpectedStatus)
    /\ [][CheckStep => UNCHANGED <<jar, cm, timers, nextId, now>>]_vars

C12_Witness ==
    /\ lastCall.op = "checkCooldown"
    /\ lastCall.fresh
    /\ lastCall.result = [cooldown |-> TRUE, remaining |-> 1]
    /\ cooldownSeconds = 2
    /\ (parseInt(CooldownCookie).n - now) % MsPerSecond # 0

EmptyVerifyStep ==
    /\ callCount' # callCount
    /\ lastCall'.op = "verifyPassword"
    /\ lastCall'.input = ""

\* C13: verifyPassword with an empty inputPassword neither starts nor ends a
\* cooldown: onSuccess is not called, the cookie, both timer handles (and the
\* pending timers), the class, the button text and the input value are
\* unchanged; only the error text becomes the enter-key message and input and
\* button become enabled.
C13_EmptyInputOnlyReports ==
    [][EmptyVerifyStep =>
          /\ successCalls' = 0
          /\ endCalls' = 0
          /\ jar' = jar
          /\ timers' = timers
          /\ nextId' = nextId
          /\ cm' = [cm EXCEPT !.errorText = ErrEnterKey,
                              !.inputDisabled = FALSE,
                              !.buttonDisabled = FALSE]]_vars

C13_Witness ==
    /\ lastCall.op = "verifyPassword"
    /\ lastCall.input = ""
    /\ lastCall.fresh
    /\ lastCall.wasActive
    /\ lastCall.hadCookie
    /\ CooldownCookie # Null
    /\ cm.cooldownActive
    /\ cm.activeCooldownTimer # 0
    /\ cm.activeCooldownTimeout # 0
    /\ cm.errorText = ErrEnterKey
    /\ ~cm.inputDisabled

\* The last call was startFrontendCooldownTimers(N) and its cooldown is still
\* running: the class is set, the N seconds have not passed and every callback
\* due by now has run.
CountingDown ==
    /\ lastCall.op = "startFrontendCooldownTimers"
    /\ cm.cooldownActive
    /\ now < lastCall.at + lastCall.arg * MsPerSecond
    /\ ~TimerDue

\* C14: during the cooldown started by startFrontendCooldownTimers(N) the error
\* element shows 'wait k seconds' with k = N, N-1, ..., 1, one step per second
\* (so after s whole seconds it shows k = N - s); k is never 0 or negative,
\* and no callback of an earlier cooldown changes the text or stops the
\* countdown (the interval of the current cooldown stays pending).
C14_CountdownShown ==
    /\ CountingDown =>
          /\ cm.errorText = ErrWait(lastCall.arg - (now - lastCall.at) \div MsPerSecond)
          /\ \E i \in PendingIntervals : timers[i].id = cm.activeCooldownTimer
    /\ cm.errorText.msg = ErrWait(1).msg => cm.errorText.k >= 1

\* C15: the only pending interval of the manager is the one activeCooldownTimer
\* names and the only pending timeout is the one activeCooldownTimeout names.
C15_NoOrphanedTimers ==
    /\ \A i \in PendingIntervals : timers[i].id = cm.activeCooldownTimer
    /\ \A i \in PendingTimeouts : timers[i].id = cm.activeCooldownTimeout

\* C16: whenever the form has class 'cooldown-active', the input and the button
\* are both disabled.
C16_LockoutInvariant ==
    cm.cooldownActive => (cm.inputDisabled /\ cm.buttonDisabled)

\* The running or ended cooldown was started by the last call, which was
\* verifyPassword with a wrong password or startFrontendCooldownTimers with
\* the remaining seconds checkCooldown() gave for the cookie still stored.
StartedFromCookie ==
    \/ WrongVerify
    \/ /\ lastCall.op = "startFrontendCooldownTimers"
       /\ lastCall.hadCookie
       /\ CooldownCookie # Null =>
             lastCall.arg = CeilDiv(parseInt(CooldownCookie).n - lastCall.at, MsPerSecond)

\* C17: once the timeout callback of such a cooldown has re-enabled the
\* controls and invoked onCooldownEnd, checkCooldown() returns cooldown = false.
C17_LockoutCoversCookie ==
    (StartedFromCookie /\ endCalls >= 1) =>
        checkCooldown(World, now) = [cooldown |-> FALSE, remaining |-> 0]

C17_Witness ==
    /\ WrongVerify
    /\ endCalls = 1
    /\ cooldownSeconds = 2
    /\ drift = MaxDrift
    /\ lastCall.at % MsPerSecond # 0
    /\ now = lastCall.at + MaxDrift + cooldownSeconds * MsPerSecond
    /\ ~cm.inputDisabled

\* C18: a reset timeout of a wrong attempt undoes only that attempt's display:
\* from the acceptance of a correct key until the navigation (its timeout is
\* pending) the input keeps the success text, the success colours and
\* disabled = true.
C18_SuccessDisplayKept ==
    NavigateTimers # {} =>
        /\ input.value = "keyCorrect"
        /\ input.borderColor = "#4CAF50"
        /\ input.backgroundColor = "#1a5f20"
        /\ input.disabled

\* C19: with autoPlayOnFirstClick the document click listener is bound only
\* BindDelay after construction; the first document click after the binding
\* calls play() iff the audio has not played yet and removes the listener; no
\* click before the binding and no later click calls play(); a click on the
\* control button calls no auto-play, leaves the listener as it is and makes
\* exactly one toggle; a rejected play() is not retried.
C19_AutoPlayOnFirstClick ==
    /\ clickHandler \in {"bound", "removed"} => now >= BindDelay
    /\ (/\ audioCfg.autoPlayOnFirstClick
        /\ lastClick.made
        /\ lastClick.fresh
        /\ lastClick.settled) =>
          /\ lastClick.target = "document" =>
                /\ lastClick.playCalls =
                       IF lastClick.handlerWas = "bound" /\ ~lastClick.hadPlayed THEN 1 ELSE 0
                /\ clickHandler =
                       IF lastClick.handlerWas = "bound" THEN "removed" ELSE lastClick.handlerWas
          /\ lastClick.target = "button" =>
                /\ lastClick.playCalls = 0
                /\ lastClick.toggles = 1
                /\ clickHandler = lastClick.handlerWas
          /\ lastClick.rejected => (events = <<>> /\ audio.paused)

\* A step in which a queued media event was dispatched to the listeners.
EventDispatched == Len(events') < Len(events)

\* A step in which the listeners ran: a dispatched event, or the pause and
\* the ended event of PlaybackEnds.
EventProcessed ==
    \/ EventDispatched
    \/ (events' = events /\ ~audio.paused /\ audio'.paused)

\* C20 as stated: for a player with a control button, after every processed
\* play, pause or ended event isPlaying equals whether the element is playing.
C20_IsPlayingAfterEveryEvent ==
    [][(listenersRegistered(audioCfg) /\ EventProcessed) =>
           player'.isPlaying = ~audio'.paused]_vars

\* C20 as amended: once setupControlButton has registered the listeners, after
\* every processed event isPlaying tells whether that event was play, and the
\* button text is the pause label exactly when isPlaying is true; for a player
\* constructed with a control button, whenever no event is pending isPlaying
\* equals whether the element is playing; played is false until the first
\* play event is processed and never returns to false.
C20_ListenersTrackElement ==
    /\ [](listeners > 0 =>
             /\ player.buttonText = IF player.isPlaying THEN "pause" ELSE "play"
             /\ player.played => audio.played)
    /\ [](listenersRegistered(audioCfg) =>
             (events = <<>> => player.isPlaying = ~audio.paused))
    /\ [][listeners > 0 =>
             /\ EventDispatched => player'.isPlaying = (Head(events) = "play")
             /\ (EventProcessed /\ ~EventDispatched) => ~player'.isPlaying
             /\ player.played => player'.played
             /\ (player'.played /\ ~player.played) =>
                    (EventDispatched /\ Head(events) = "play")]_vars

C20_Witness ==
    /\ listenersRegistered(audioCfg)
    /\ player.played
    /\ ~player.isPlaying
    /\ player.buttonText = "play"
    /\ audio.paused
    /\ events = <<>>
    /\ audioSteps >= 3
====
